---- MODULE Spec2Model ----
(***************************************************************************)
(* The appointment scheduling engine of the healthcare voice assistant:    *)
(* AppointmentManager (src/src/scheduling/appointment.py) on top of the    *)
(* appointments table of DatabaseManager (src/src/database/db_manager.py). *)
(*                                                                         *)
(* Dates and times reach the engine as text.  A text is modelled by the    *)
(* value datetime.strptime reads from it and by its written form: "canon"  *)
(* is the zero-padded form strftime produces ("09:30"), "short" is a form  *)
(* strptime also accepts ("9:30"), "bad" is a text strptime rejects with   *)
(* ValueError.  The table stores and compares the texts, the validator     *)
(* compares the parsed values.                                             *)
(*                                                                         *)
(* A date value is a day number, day 0 being Friday 2025-01-03; a time     *)
(* value is a minute of the day; the clock is in minutes since day 0,      *)
(* 00:00.  An engine call is taken to run within one reading of the clock, *)
(* and the store's statements succeed (sqlite3 raises no error), except    *)
(* in SpecFaulty, where a statement can fail.                              *)
(*                                                                         *)
(* SpecSession is the loop of HealthcareVoiceAssistant.start (src/app.py)  *)
(* on top of the engine: pc["c1"] is "listening" or "ended" and last is    *)
(* the response of the latest pass.  SpecSpeech is SpeechHandler           *)
(* (src/src/speech/speech_handler.py): c1 is the thread that calls speak,  *)
(* c2 the worker of the speech queue, and res holds the texts.             *)
(***************************************************************************)
EXTENDS Integers, Sequences, FiniteSets, TLC

VARIABLES
    store,  \* the appointments table: rows in id order
    now,    \* datetime.now(), minutes since day 0, 00:00
    last,   \* the latest completed engine call and what it returned
    pc,     \* per concurrent caller: its place inside schedule_appointment
    req,    \* per concurrent caller: the arguments of its call
    res     \* per concurrent caller: what its call returned

vars == <<store, now, last, pc, req, res>>

----------------------------------------------------------------------------
\* Configuration (AppointmentManager.__init__)

WORKING_HOURS_START == 9
WORKING_HOURS_END == 17
APPOINTMENT_DURATION == 30
MIN_SCHEDULE_NOTICE == 1

\* Bounds of the model
MaxRecords == 2
MaxTicks == 1

----------------------------------------------------------------------------
\* Texts and their parsing

Text(v, f) == [val |-> v, form |-> f]

Unparsed == [parsed |-> FALSE, val |-> 0]

\* Mutant: a lenient parser that reads some value out of any text.
strptime_lenient(s) == [parsed |-> TRUE, val |-> s.val]

\* datetime.strptime on one field: ValueError for a malformed text, the same
\* value for the padded and the unpadded spelling.
strptime(s) ==
    IF s.form = "bad" THEN Unparsed ELSE [parsed |-> TRUE, val |-> s.val]

\* datetime.strftime: always the zero-padded spelling.
strftime(v) == Text(v, "canon")

\* datetime.weekday(): Monday is 0, Sunday is 6; day 0 is a Friday.
weekday(day) == (day + 4) % 7

Day(n) == Text(n, "canon")
HHMM(h, m) == Text(h * 60 + m, "canon")
ShortHHMM(h, m) == Text(h * 60 + m, "short")
BadText == Text(0, "bad")

----------------------------------------------------------------------------
\* Slot validator

\* Mutant: the closing hour itself is accepted (hour > WORKING_HOURS_END).
is_valid_datetime_end_inclusive(date, time, clock) ==
    LET d == strptime(date)
        t == strptime(time)
    IN  IF ~d.parsed \/ ~t.parsed THEN FALSE
        ELSE LET appointment_dt == d.val * 1440 + t.val
                 hour == t.val \div 60
             IN  IF appointment_dt < clock + MIN_SCHEDULE_NOTICE * 60 THEN FALSE
                 ELSE IF hour < WORKING_HOURS_START \/ hour > WORKING_HOURS_END
                      THEN FALSE
                 ELSE IF weekday(d.val) >= 5 THEN FALSE
                 ELSE TRUE

\* Mutant: the notice is forgotten (appointment_dt < now).
is_valid_datetime_no_notice(date, time, clock) ==
    LET d == strptime(date)
        t == strptime(time)
    IN  IF ~d.parsed \/ ~t.parsed THEN FALSE
        ELSE LET appointment_dt == d.val * 1440 + t.val
                 hour == t.val \div 60
             IN  IF appointment_dt < clock THEN FALSE
                 ELSE IF hour < WORKING_HOURS_START \/ hour >= WORKING_HOURS_END
                      THEN FALSE
                 ELSE IF weekday(d.val) >= 5 THEN FALSE
                 ELSE TRUE

\* Mutant: the comparison with the notice is turned round.
is_valid_datetime_reversed(date, time, clock) ==
    LET d == strptime(date)
        t == strptime(time)
    IN  IF ~d.parsed \/ ~t.parsed THEN FALSE
        ELSE LET appointment_dt == d.val * 1440 + t.val
                 hour == t.val \div 60
             IN  IF appointment_dt > clock + MIN_SCHEDULE_NOTICE * 60 THEN FALSE
                 ELSE IF hour < WORKING_HOURS_START \/ hour >= WORKING_HOURS_END
                      THEN FALSE
                 ELSE IF weekday(d.val) >= 5 THEN FALSE
                 ELSE TRUE

\* Mutant: the boundary is rejected too (appointment_dt <= now + notice).
is_valid_datetime_boundary_out(date, time, clock) ==
    LET d == strptime(date)
        t == strptime(time)
    IN  IF ~d.parsed \/ ~t.parsed THEN FALSE
        ELSE LET appointment_dt == d.val * 1440 + t.val
                 hour == t.val \div 60
             IN  IF appointment_dt <= clock + MIN_SCHEDULE_NOTICE * 60 THEN FALSE
                 ELSE IF hour < WORKING_HOURS_START \/ hour >= WORKING_HOURS_END
                      THEN FALSE
                 ELSE IF weekday(d.val) >= 5 THEN FALSE
                 ELSE TRUE

is_valid_datetime(date, time, clock) ==
    LET d == strptime(date)
        t == strptime(time)
    IN  IF ~d.parsed \/ ~t.parsed THEN FALSE
        ELSE LET appointment_dt == d.val * 1440 + t.val
                 hour == t.val \div 60
             IN  IF appointment_dt < clock + MIN_SCHEDULE_NOTICE * 60 THEN FALSE
                 ELSE IF hour < WORKING_HOURS_START \/ hour >= WORKING_HOURS_END
                      THEN FALSE
                 ELSE IF weekday(d.val) >= 5 THEN FALSE
                 ELSE TRUE

----------------------------------------------------------------------------
\* The store (DatabaseManager).  Every operation is one sqlite statement.

\* WHERE date = ? AND time = ? AND status = 'scheduled'
where_scheduled(db, date, time) ==
    {i \in DOMAIN db : /\ db[i].date = date
                       /\ db[i].time = time
                       /\ db[i].status = "scheduled"}

\* Mutant: the count leaves out "AND status = 'scheduled'".
db_check_availability_any_status(db, date, time) ==
    Cardinality({i \in DOMAIN db : db[i].date = date /\ db[i].time = time}) = 0

db_check_availability(db, date, time) ==
    Cardinality(where_scheduled(db, date, time)) = 0

\* Mutant: the insert is never committed.
db_add_appointment_no_commit(db, date, time, doctor, notes) ==
    [ok |-> TRUE, db |-> db]

\* Mutant: the doctor and the notes are bound to each other's column.
db_add_appointment_swapped(db, date, time, doctor, notes) ==
    [ok |-> TRUE,
     db |-> Append(db, [date |-> date, time |-> time, doctor |-> notes,
                        patient_notes |-> doctor, status |-> "scheduled"])]

\* Mutant: an upsert that re-activates a cancelled row of the slot.
db_add_appointment_reactivate(db, date, time, doctor, notes) ==
    LET old == {i \in DOMAIN db : /\ db[i].date = date
                                  /\ db[i].time = time
                                  /\ db[i].status = "cancelled"}
    IN  IF old = {}
        THEN [ok |-> TRUE,
              db |-> Append(db, [date |-> date, time |-> time, doctor |-> doctor,
                                 patient_notes |-> notes, status |-> "scheduled"])]
        ELSE LET k == CHOOSE i \in old : \A j \in old : i <= j
             IN  [ok |-> TRUE,
                  db |-> [db EXCEPT ![k] = [date |-> date, time |-> time,
                                            doctor |-> doctor, patient_notes |-> notes,
                                            status |-> "scheduled"]]]

db_add_appointment(db, date, time, doctor, notes) ==
    [ok |-> TRUE,
     db |-> Append(db, [date |-> date, time |-> time, doctor |-> doctor,
                        patient_notes |-> notes, status |-> "scheduled"])]

\* Mutant: the update leaves out "AND status = 'scheduled'".
db_cancel_appointment_any_status(db, date, time) ==
    LET rows == {i \in DOMAIN db : db[i].date = date /\ db[i].time = time}
    IN  [ok |-> Cardinality(rows) > 0,
         db |-> [i \in DOMAIN db |->
                    IF i \in rows THEN [db[i] EXCEPT !.status = "cancelled"]
                    ELSE db[i]]]

\* Mutant: a hard delete (DELETE FROM appointments WHERE ...).
db_cancel_appointment_delete(db, date, time) ==
    LET rows == where_scheduled(db, date, time)
        keep(r) == ~(r.date = date /\ r.time = time /\ r.status = "scheduled")
    IN  [ok |-> Cardinality(rows) > 0, db |-> SelectSeq(db, keep)]

\* Mutant: only the first matching row is updated.
db_cancel_appointment_first_only(db, date, time) ==
    LET rows == where_scheduled(db, date, time)
        first == IF rows = {} THEN 0
                 ELSE CHOOSE i \in rows : \A j \in rows : i <= j
    IN  [ok |-> Cardinality(rows) > 0,
         db |-> [i \in DOMAIN db |->
                    IF i = first THEN [db[i] EXCEPT !.status = "cancelled"]
                    ELSE db[i]]]

db_cancel_appointment(db, date, time) ==
    LET rows == where_scheduled(db, date, time)
    IN  [ok |-> Cardinality(rows) > 0,
         db |-> [i \in DOMAIN db |->
                    IF i \in rows THEN [db[i] EXCEPT !.status = "cancelled"]
                    ELSE db[i]]]

\* Mutant: the UPDATE has no status condition.
db_update_appointment_notes_any_status(db, date, time, notes) ==
    LET rows == {i \in DOMAIN db : db[i].date = date /\ db[i].time = time}
    IN  [ok |-> Cardinality(rows) > 0,
         db |-> [i \in DOMAIN db |->
                    IF i \in rows THEN [db[i] EXCEPT !.patient_notes = notes]
                    ELSE db[i]]]

db_update_appointment_notes(db, date, time, notes) ==
    LET rows == where_scheduled(db, date, time)
    IN  [ok |-> Cardinality(rows) > 0,
         db |-> [i \in DOMAIN db |->
                    IF i \in rows THEN [db[i] EXCEPT !.patient_notes = notes]
                    ELSE db[i]]]

----------------------------------------------------------------------------
\* The scheduling engine (AppointmentManager)

\* Mutant: the store is never asked.
is_available_no_store(db, clock, date, time) ==
    is_valid_datetime(date, time, clock)

\* Mutant: the store alone is asked, the validator is skipped.
is_available_no_validation(db, clock, date, time) ==
    db_check_availability(db, date, time)

is_available(db, clock, date, time) ==
    IF ~is_valid_datetime(date, time, clock) THEN FALSE
    ELSE db_check_availability(db, date, time)

\* Mutant: availability is tested before legality.
schedule_appointment_availability_first(db, clock, date, time, doctor, notes) ==
    IF ~is_available(db, clock, date, time)
    THEN [ok |-> FALSE, msg |-> "This time slot is not available", db |-> db]
    ELSE IF ~is_valid_datetime(date, time, clock)
    THEN [ok |-> FALSE, msg |-> "Invalid appointment date or time", db |-> db]
    ELSE LET r == db_add_appointment(db, date, time, doctor, notes)
         IN  [ok |-> r.ok, msg |-> "Appointment scheduled successfully", db |-> r.db]

\* Mutant: the record is inserted before the slot is examined.
schedule_appointment_insert_first(db, clock, date, time, doctor, notes) ==
    LET r == db_add_appointment(db, date, time, doctor, notes)
    IN  IF ~is_valid_datetime(date, time, clock)
        THEN [ok |-> FALSE, msg |-> "Invalid appointment date or time",
              db |-> r.db]
        ELSE IF ~is_available(db, clock, date, time)
        THEN [ok |-> FALSE, msg |-> "This time slot is not available",
              db |-> r.db]
        ELSE [ok |-> TRUE, msg |-> "Appointment scheduled successfully",
              db |-> r.db]

schedule_appointment(db, clock, date, time, doctor, notes) ==
    IF ~is_valid_datetime(date, time, clock)
    THEN [ok |-> FALSE, msg |-> "Invalid appointment date or time", db |-> db]
    ELSE IF ~is_available(db, clock, date, time)
    THEN [ok |-> FALSE, msg |-> "This time slot is not available", db |-> db]
    ELSE LET r == db_add_appointment(db, date, time, doctor, notes)
         IN  IF r.ok
             THEN [ok |-> TRUE, msg |-> "Appointment scheduled successfully",
                   db |-> r.db]
             ELSE [ok |-> FALSE, msg |-> "Failed to schedule appointment",
                   db |-> r.db]

cancel_appointment(db, date, time) ==
    LET r == db_cancel_appointment(db, date, time)
    IN  IF r.ok
        THEN [ok |-> TRUE, msg |-> "Appointment cancelled successfully",
              db |-> r.db]
        ELSE [ok |-> FALSE, msg |-> "No appointment found for the specified time",
              db |-> r.db]

update_appointment_notes(db, date, time, notes) ==
    LET r == db_update_appointment_notes(db, date, time, notes)
    IN  IF r.ok
        THEN [ok |-> TRUE, msg |-> "Appointment notes updated successfully",
              db |-> r.db]
        ELSE [ok |-> FALSE, msg |-> "No appointment found for the specified time",
              db |-> r.db]

----------------------------------------------------------------------------
\* Inputs of the calls

Friday == Day(0)
Saturday == Day(1)

\* (date, time) arguments: two working slots, a second spelling of one of
\* them, a time before opening, a weekend day, and a malformed text.
SlotInputs ==
    { <<Friday, HHMM(9, 0)>>, <<Friday, HHMM(9, 30)>>, <<Friday, ShortHHMM(9, 30)>>,
      <<Friday, HHMM(8, 30)>>, <<Saturday, HHMM(9, 0)>>,
      <<BadText, HHMM(9, 0)>> }

\* (doctor, notes) arguments of a booking
DetailInputs == { <<"Dr. Smith", "annual checkup">> }

NoteInputs == { "flu" }

Callers == {"c1", "c2"}

NoCall ==
    [op |-> "none", date |-> BadText, time |-> BadText, doctor |-> "",
     notes |-> "", ok |-> FALSE, msg |-> ""]

Call(op, date, time, doctor, notes, ok, msg) ==
    [op |-> op, date |-> date, time |-> time, doctor |-> doctor,
     notes |-> notes, ok |-> ok, msg |-> msg]

NoRequest == [date |-> BadText, time |-> BadText, doctor |-> "", notes |-> ""]

NoResult == [ok |-> FALSE, msg |-> ""]

----------------------------------------------------------------------------
\* State machine: one caller, one engine call at a time

Init ==
    /\ store = << >>
    /\ now = 8 * 60
    /\ last = NoCall
    /\ pc = [c \in Callers |-> "idle"]
    /\ req = [c \in Callers |-> NoRequest]
    /\ res = [c \in Callers |-> NoResult]

Schedule(date, time, doctor, notes) ==
    LET r == schedule_appointment(store, now, date, time, doctor, notes)
    IN  /\ Len(r.db) <= MaxRecords
        /\ store' = r.db
        /\ last' = Call("schedule", date, time, doctor, notes, r.ok, r.msg)
        /\ UNCHANGED <<now, pc, req, res>>

Cancel(date, time) ==
    LET r == cancel_appointment(store, date, time)
    IN  /\ store' = r.db
        /\ last' = Call("cancel", date, time, "", "", r.ok, r.msg)
        /\ UNCHANGED <<now, pc, req, res>>

UpdateNotes(date, time, notes) ==
    LET r == update_appointment_notes(store, date, time, notes)
    IN  /\ store' = r.db
        /\ last' = Call("update_notes", date, time, "", notes, r.ok, r.msg)
        /\ UNCHANGED <<now, pc, req, res>>

IsAvailable(date, time) ==
    /\ last' = Call("is_available", date, time, "", "",
                    is_available(store, now, date, time), "")
    /\ UNCHANGED <<store, now, pc, req, res>>

\* The wall clock advances between calls.
Tick ==
    /\ now < 8 * 60 + MaxTicks * 30
    /\ now' = now + 30
    /\ last' = NoCall
    /\ UNCHANGED <<store, pc, req, res>>

Next ==
    \/ \E s \in SlotInputs, d \in DetailInputs : Schedule(s[1], s[2], d[1], d[2])
    \/ \E s \in SlotInputs : Cancel(s[1], s[2])
    \/ \E s \in SlotInputs, n \in NoteInputs : UpdateNotes(s[1], s[2], n)
    \/ \E s \in SlotInputs : IsAvailable(s[1], s[2])
    \/ Tick

Spec == Init /\ [][Next]_vars

----------------------------------------------------------------------------
\* State machine: two callers inside schedule_appointment on one store.
\* The validation, the availability read and the insert are separate
\* statements, and the other caller's statements may run between them.

Begin(c, date, time, doctor, notes) ==
    /\ pc[c] = "idle"
    /\ req' = [req EXCEPT ![c] = [date |-> date, time |-> time,
                                  doctor |-> doctor, notes |-> notes]]
    /\ pc' = [pc EXCEPT ![c] = "validate"]
    /\ UNCHANGED <<store, now, last, res>>

ScheduleValidate(c) ==
    /\ pc[c] = "validate"
    /\ IF ~is_valid_datetime(req[c].date, req[c].time, now)
       THEN /\ res' = [res EXCEPT ![c] =
                          [ok |-> FALSE, msg |-> "Invalid appointment date or time"]]
            /\ pc' = [pc EXCEPT ![c] = "done"]
       ELSE /\ pc' = [pc EXCEPT ![c] = "check"]
            /\ UNCHANGED res
    /\ UNCHANGED <<store, now, last, req>>

ScheduleCheck(c) ==
    /\ pc[c] = "check"
    /\ IF ~is_available(store, now, req[c].date, req[c].time)
       THEN /\ res' = [res EXCEPT ![c] =
                          [ok |-> FALSE, msg |-> "This time slot is not available"]]
            /\ pc' = [pc EXCEPT ![c] = "done"]
       ELSE /\ pc' = [pc EXCEPT ![c] = "insert"]
            /\ UNCHANGED res
    /\ UNCHANGED <<store, now, last, req>>

ScheduleInsert(c) ==
    /\ pc[c] = "insert"
    /\ LET r == db_add_appointment(store, req[c].date, req[c].time,
                                   req[c].doctor, req[c].notes)
       IN  /\ store' = r.db
           /\ res' = [res EXCEPT ![c] =
                         IF r.ok
                         THEN [ok |-> TRUE, msg |-> "Appointment scheduled successfully"]
                         ELSE [ok |-> FALSE, msg |-> "Failed to schedule appointment"]]
    /\ pc' = [pc EXCEPT ![c] = "done"]
    /\ UNCHANGED <<now, last, req>>

NextConc ==
    \/ \E c \in Callers, s \in SlotInputs, d \in DetailInputs :
          Begin(c, s[1], s[2], d[1], d[2])
    \/ \E c \in Callers : ScheduleValidate(c)
    \/ \E c \in Callers : ScheduleCheck(c)
    \/ \E c \in Callers : ScheduleInsert(c)

SpecConc == Init /\ [][NextConc]_vars

----------------------------------------------------------------------------
\* Listing (get_appointments)

\* How sqlite compares two TEXT values of the model, as a sort key: among
\* zero-padded texts the order of the values; an unpadded text ("9:30",
\* "2025-1-3") has a larger character where the padded ones have their
\* leading '0', '1' or '2', and comes after every padded text of the model
\* (January and February dates, times of day).
text_key(s) == IF s.form = "short" THEN 1000000 + s.val ELSE s.val

\* ORDER BY: the rows `ids` of db in ascending order of their sort key
\* key[i], a pair compared left to right; rows of equal key in id order.
order_by(db, ids, key) ==
    LET before(i, j) == \/ key[i][1] < key[j][1]
                        \/ (key[i][1] = key[j][1] /\ key[i][2] < key[j][2])
                        \/ (key[i] = key[j] /\ i < j)
        rank(i) == 1 + Cardinality({j \in ids : before(j, i)})
    IN  [k \in 1 .. Cardinality(ids) |-> db[CHOOSE i \in ids : rank(i) = k]]

\* ORDER BY time
by_time(db) == [i \in DOMAIN db |-> <<0, text_key(db[i].time)>>]

\* ORDER BY date, time
by_date_time(db) ==
    [i \in DOMAIN db |-> <<text_key(db[i].date), text_key(db[i].time)>>]

\* date('now'): the date in UTC, zero-padded; the local clock is
\* utc_offset minutes ahead of UTC.
sqlite_date_now(clock, utc_offset) == strftime((clock - utc_offset) \div 1440)

\* get_appointments(date): WHERE date = ? AND status = 'scheduled' ORDER BY time
get_appointments_on(db, date) ==
    order_by(db,
             {i \in DOMAIN db : db[i].date = date /\ db[i].status = "scheduled"},
             by_time(db))

\* get_appointments(): WHERE date >= date('now') AND status = 'scheduled'
\* ORDER BY date, time
get_appointments_upcoming(db, clock, utc_offset) ==
    order_by(db,
             {i \in DOMAIN db :
                 /\ text_key(db[i].date) >= text_key(sqlite_date_now(clock, utc_offset))
                 /\ db[i].status = "scheduled"},
             by_date_time(db))

\* What a query returned: the fields of a call, the rows, and the number of
\* candidate slots a search examined.
Answer(op, date, time, asked, rows, examined) ==
    [op |-> op, date |-> date, time |-> time, doctor |-> "", notes |-> "",
     ok |-> rows # << >>, msg |-> "", asked |-> asked, rows |-> rows,
     examined |-> examined]

Monday == Day(3)
ShortFriday == Text(0, "short")

\* Bookings of the listing runs: Friday 10:00, Friday "9:30", Monday 09:00
\* and 10:00 on Friday written "2025-1-3".
ListSlotInputs ==
    { <<Friday, HHMM(10, 0)>>, <<Friday, ShortHHMM(9, 30)>>,
      <<Monday, HHMM(9, 0)>>, <<ShortFriday, HHMM(10, 0)>> }

ListDateInputs == { Friday, Monday }

\* The machine's time zone, in minutes ahead of UTC: UTC and UTC+10.
UtcOffsets == { 0, 600 }

List(date) ==
    /\ last' = Answer("list", date, BadText, 0, get_appointments_on(store, date), 0)
    /\ UNCHANGED <<store, now, pc, req, res>>

ListUpcoming(utc_offset) ==
    /\ last' = Answer("list_upcoming", BadText, BadText, 0,
                      get_appointments_upcoming(store, now, utc_offset), 0)
    /\ UNCHANGED <<store, now, pc, req, res>>

\* A day passes between calls.
NextDay ==
    /\ now < 8 * 60 + MaxTicks * 1440
    /\ now' = now + 1440
    /\ last' = NoCall
    /\ UNCHANGED <<store, pc, req, res>>

NextList ==
    \/ \E s \in ListSlotInputs, d \in DetailInputs : Schedule(s[1], s[2], d[1], d[2])
    \/ \E s \in ListSlotInputs : Cancel(s[1], s[2])
    \/ \E d \in ListDateInputs : List(d)
    \/ \E off \in UtcOffsets : ListUpcoming(off)
    \/ NextDay

SpecList == Init /\ [][NextList]_vars

----------------------------------------------------------------------------
\* State machine: the validator on the edges of the business calendar

Sunday == Day(2)

ValidatorDateInputs == { Friday, Saturday, Sunday, BadText }

\* 08:59, 09:00, 16:30, 16:59, 17:00 and a malformed text
ValidatorTimeInputs ==
    { HHMM(8, 59), HHMM(9, 0), HHMM(16, 30), HHMM(16, 59), HHMM(17, 0), BadText }

\* Friday 07:59, 08:00, 08:01 and 15:30, Saturday 10:00
ValidatorClocks ==
    { 7 * 60 + 59, 8 * 60, 8 * 60 + 1, 15 * 60 + 30, 1440 + 10 * 60 }

InitValidator ==
    /\ store = << >>
    /\ now \in ValidatorClocks
    /\ last = NoCall
    /\ pc = [c \in Callers |-> "idle"]
    /\ req = [c \in Callers |-> NoRequest]
    /\ res = [c \in Callers |-> NoResult]

IsValidSlot(date, time) ==
    /\ last' = Call("is_valid_slot", date, time, "", "",
                    is_valid_datetime(date, time, now), "")
    /\ UNCHANGED <<store, now, pc, req, res>>

NextValidator ==
    \/ \E d \in ValidatorDateInputs, t \in ValidatorTimeInputs : IsValidSlot(d, t)
    \/ \E d \in ValidatorDateInputs, t \in ValidatorTimeInputs, x \in DetailInputs :
          Schedule(d, t, x[1], x[2])
    \/ \E d \in ValidatorDateInputs, t \in ValidatorTimeInputs : IsAvailable(d, t)

SpecValidator == InitValidator /\ [][NextValidator]_vars

----------------------------------------------------------------------------
\* Slot search

\* The date argument left out (date: str = None).
NoDate == [val |-> 0, form |-> "absent"]

Slot(date, time) == [date |-> date, time |-> time]

\* while current_time < end_time: the first available time of one day, from
\* time t on, as a list of one slot, or the empty list.
RECURSIVE scan_slots(_, _, _, _)
scan_slots(db, clock, day, t) ==
    IF ~(t < WORKING_HOURS_END * 60) THEN << >>
    ELSE IF is_available(db, clock, strftime(day), strftime(t))
         THEN << Slot(strftime(day), strftime(t)) >>
    ELSE scan_slots(db, clock, day, t + APPOINTMENT_DURATION)

\* for _ in range(n): n days from day on, each from time first on.
RECURSIVE scan_days(_, _, _, _, _)
scan_days(db, clock, day, n, first) ==
    IF n = 0 THEN << >>
    ELSE LET hit == scan_slots(db, clock, day, first)
         IN  IF hit # << >> THEN hit
             ELSE scan_days(db, clock, day + 1, n - 1, first)

\* Mutant: range(31).
get_next_available_slot_31_days(db, clock, date) ==
    LET from == IF date = NoDate THEN strftime(clock \div 1440) ELSE date
        current_date == strptime(from)
    IN  IF ~current_date.parsed THEN << >>
        ELSE scan_days(db, clock, current_date.val, 31, WORKING_HOURS_START * 60)

\* Mutant: the scan of a day starts an hour after the opening hour.
get_next_available_slot_late_start(db, clock, date) ==
    LET from == IF date = NoDate THEN strftime(clock \div 1440) ELSE date
        current_date == strptime(from)
    IN  IF ~current_date.parsed THEN << >>
        ELSE scan_days(db, clock, current_date.val, 30,
                       (WORKING_HOURS_START + MIN_SCHEDULE_NOTICE) * 60)

\* The result is a list of one slot, or the empty list for None.
get_next_available_slot(db, clock, date) ==
    LET from == IF date = NoDate THEN strftime(clock \div 1440) ELSE date
        current_date == strptime(from)
    IN  IF ~current_date.parsed THEN << >>
        ELSE scan_days(db, clock, current_date.val, 30, WORKING_HOURS_START * 60)

\* while current_dt.weekday() >= 5: the next day at the opening hour.
RECURSIVE skip_weekends(_)
skip_weekends(dt) ==
    IF weekday(dt \div 1440) >= 5
    THEN skip_weekends((dt \div 1440 + 1) * 1440 + WORKING_HOURS_START * 60)
    ELSE dt

\* Mutant: the candidate moves on by two appointment durations.
next_candidate_double_step(current_dt) ==
    LET stepped == current_dt + 2 * APPOINTMENT_DURATION
        rolled == IF (stepped % 1440) \div 60 >= WORKING_HOURS_END
                  THEN (stepped \div 1440 + 1) * 1440 + WORKING_HOURS_START * 60
                  ELSE stepped
    IN  skip_weekends(rolled)

\* One candidate: half an hour on, to the next day at the closing hour, over
\* the weekend.
next_candidate(current_dt) ==
    LET stepped == current_dt + APPOINTMENT_DURATION
        rolled == IF (stepped % 1440) \div 60 >= WORKING_HOURS_END
                  THEN (stepped \div 1440 + 1) * 1440 + WORKING_HOURS_START * 60
                  ELSE stepped
    IN  skip_weekends(rolled)

\* while len(suggestions) < num_suggestions and len(suggestions) < 10,
\* counting the candidates that were tested.
RECURSIVE suggest_loop(_, _, _, _, _, _)
suggest_loop(db, clock, current_dt, num_suggestions, suggestions, examined) ==
    IF ~(Len(suggestions) < num_suggestions /\ Len(suggestions) < 10)
    THEN [rows |-> suggestions, examined |-> examined]
    ELSE LET dt == next_candidate(current_dt)
             current_date == strftime(dt \div 1440)
             current_time == strftime(dt % 1440)
         IN  suggest_loop(db, clock, dt, num_suggestions,
                          IF is_available(db, clock, current_date, current_time)
                          THEN Append(suggestions, Slot(current_date, current_time))
                          ELSE suggestions,
                          examined + 1)

suggest_alternative_slots(db, clock, date, time, num_suggestions) ==
    LET d == strptime(date)
        t == strptime(time)
    IN  IF ~d.parsed \/ ~t.parsed THEN [rows |-> << >>, examined |-> 0]
        ELSE suggest_loop(db, clock, d.val * 1440 + t.val, num_suggestions,
                          << >>, 0)

----------------------------------------------------------------------------
\* State machine: searching a calendar with bookings

\* Monday 2025-02-03, the Friday before it, and the Sunday and the Saturday
\* twenty-nine and thirty days before it.
SearchMonday == Day(31)
SearchFriday == Day(28)
SearchHorizonEdge == Day(2)
SearchBeyondHorizon == Day(1)

SearchSlotInputs ==
    { <<SearchMonday, HHMM(9, 30)>>, <<SearchMonday, HHMM(10, 0)>>,
      <<SearchMonday, HHMM(10, 30)>> }

SearchFromInputs == { NoDate, SearchMonday, SearchFriday, BadText }

\* Starting dates whose thirty days end on the Monday and on the Sunday
\* before it.
HorizonFromInputs == { SearchHorizonEdge, SearchBeyondHorizon, SearchMonday }

SuggestInputs ==
    { <<SearchMonday, HHMM(9, 0)>>, <<SearchMonday, HHMM(8, 0)>>,
      <<SearchMonday, HHMM(16, 30)>>, <<SearchFriday, HHMM(16, 30)>>,
      <<SearchFriday, HHMM(9, 0)>>, <<BadText, HHMM(9, 0)>> }

SuggestCounts == { 1, 3, 11 }

\* Monday 08:30: the opening slot of the day is inside the notice window.
SearchClocks == { 31 * 1440 + 8 * 60 + 30 }

InitSearch ==
    /\ store = << >>
    /\ now \in SearchClocks
    /\ last = NoCall
    /\ pc = [c \in Callers |-> "idle"]
    /\ req = [c \in Callers |-> NoRequest]
    /\ res = [c \in Callers |-> NoResult]

NextAvailable(date) ==
    /\ last' = Answer("next_available", date, BadText, 1,
                      get_next_available_slot(store, now, date), 0)
    /\ UNCHANGED <<store, now, pc, req, res>>

Suggest(date, time, num_suggestions) ==
    LET r == suggest_alternative_slots(store, now, date, time, num_suggestions)
    IN  /\ last' = Answer("suggest", date, time, num_suggestions, r.rows,
                          r.examined)
        /\ UNCHANGED <<store, now, pc, req, res>>

NextSearch ==
    \/ \E s \in SearchSlotInputs, x \in DetailInputs :
          Schedule(s[1], s[2], x[1], x[2])
    \/ \E s \in SearchSlotInputs : Cancel(s[1], s[2])
    \/ \E d \in SearchFromInputs : NextAvailable(d)
    \/ \E s \in SuggestInputs, n \in SuggestCounts : Suggest(s[1], s[2], n)

SpecSearch == InitSearch /\ [][NextSearch]_vars

NextHorizon ==
    \/ \E s \in SearchSlotInputs, x \in DetailInputs :
          Schedule(s[1], s[2], x[1], x[2])
    \/ \E s \in SearchSlotInputs : Cancel(s[1], s[2])
    \/ \E d \in HorizonFromInputs : NextAvailable(d)

SpecHorizon == InitSearch /\ [][NextHorizon]_vars

----------------------------------------------------------------------------
\* The engine on a store whose calls can fail

\* The faults of one engine call: the store is down for the whole call, or
\* the availability checks of some instants fail (a timeout, a locked
\* database), or the statements other than the availability check fail.
Fault(down, at, write) == [down |-> down, at |-> at, write |-> write]
NoFault == Fault(FALSE, {}, FALSE)

check_fails(f, date, time) ==
    f.down \/ (strptime(date).val * 1440 + strptime(time).val) \in f.at

write_fails(f) == f.down \/ f.write

\* except sqlite3.Error: return False
db_check_availability_faulty(db, date, time, f) ==
    IF check_fails(f, date, time) THEN FALSE
    ELSE db_check_availability(db, date, time)

\* except sqlite3.Error: return False; the transaction is rolled back.
db_add_appointment_faulty(db, date, time, doctor, notes, f) ==
    IF write_fails(f) THEN [ok |-> FALSE, db |-> db]
    ELSE db_add_appointment(db, date, time, doctor, notes)

db_cancel_appointment_faulty(db, date, time, f) ==
    IF write_fails(f) THEN [ok |-> FALSE, db |-> db]
    ELSE db_cancel_appointment(db, date, time)

db_update_appointment_notes_faulty(db, date, time, notes, f) ==
    IF write_fails(f) THEN [ok |-> FALSE, db |-> db]
    ELSE db_update_appointment_notes(db, date, time, notes)

\* except sqlite3.Error: return []
db_get_appointments_faulty(db, date, f) ==
    IF write_fails(f) THEN << >> ELSE get_appointments_on(db, date)

\* The store is asked only for a slot that passed the validator; failed tells
\* whether a store call of this engine call failed.
is_available_faulty(db, clock, date, time, f) ==
    IF ~is_valid_datetime(date, time, clock) THEN [ok |-> FALSE, failed |-> FALSE]
    ELSE [ok |-> db_check_availability_faulty(db, date, time, f),
          failed |-> check_fails(f, date, time)]

schedule_appointment_faulty(db, clock, date, time, doctor, notes, f) ==
    IF ~is_valid_datetime(date, time, clock)
    THEN [ok |-> FALSE, msg |-> "Invalid appointment date or time", db |-> db,
          failed |-> FALSE]
    ELSE IF ~is_available_faulty(db, clock, date, time, f).ok
    THEN [ok |-> FALSE, msg |-> "This time slot is not available", db |-> db,
          failed |-> check_fails(f, date, time)]
    ELSE LET r == db_add_appointment_faulty(db, date, time, doctor, notes, f)
         IN  IF r.ok
             THEN [ok |-> TRUE, msg |-> "Appointment scheduled successfully",
                   db |-> r.db, failed |-> FALSE]
             ELSE [ok |-> FALSE, msg |-> "Failed to schedule appointment",
                   db |-> r.db, failed |-> TRUE]

cancel_appointment_faulty(db, date, time, f) ==
    LET r == db_cancel_appointment_faulty(db, date, time, f)
    IN  IF r.ok
        THEN [ok |-> TRUE, msg |-> "Appointment cancelled successfully",
              db |-> r.db, failed |-> FALSE]
        ELSE [ok |-> FALSE, msg |-> "No appointment found for the specified time",
              db |-> r.db, failed |-> write_fails(f)]

update_appointment_notes_faulty(db, date, time, notes, f) ==
    LET r == db_update_appointment_notes_faulty(db, date, time, notes, f)
    IN  IF r.ok
        THEN [ok |-> TRUE, msg |-> "Appointment notes updated successfully",
              db |-> r.db, failed |-> FALSE]
        ELSE [ok |-> FALSE, msg |-> "No appointment found for the specified time",
              db |-> r.db, failed |-> write_fails(f)]

\* The scan of get_next_available_slot; failed tells whether one of the
\* availability checks made on the way failed.
RECURSIVE scan_slots_faulty(_, _, _, _, _, _)
scan_slots_faulty(db, clock, day, t, f, failed) ==
    IF ~(t < WORKING_HOURS_END * 60) THEN [rows |-> << >>, failed |-> failed]
    ELSE LET a == is_available_faulty(db, clock, strftime(day), strftime(t), f)
         IN  IF a.ok
             THEN [rows |-> << Slot(strftime(day), strftime(t)) >>,
                   failed |-> failed]
             ELSE scan_slots_faulty(db, clock, day, t + APPOINTMENT_DURATION, f,
                                    failed \/ a.failed)

RECURSIVE scan_days_faulty(_, _, _, _, _, _)
scan_days_faulty(db, clock, day, n, f, failed) ==
    IF n = 0 THEN [rows |-> << >>, failed |-> failed]
    ELSE LET hit == scan_slots_faulty(db, clock, day, WORKING_HOURS_START * 60,
                                      f, failed)
         IN  IF hit.rows # << >> THEN hit
             ELSE scan_days_faulty(db, clock, day + 1, n - 1, f, hit.failed)

get_next_available_slot_faulty(db, clock, date, f) ==
    LET from == IF date = NoDate THEN strftime(clock \div 1440) ELSE date
        current_date == strptime(from)
    IN  IF ~current_date.parsed THEN [rows |-> << >>, failed |-> FALSE]
        ELSE scan_days_faulty(db, clock, current_date.val, 30, f, FALSE)

\* The loop of suggest_alternative_slots with availability checks that can
\* fail.
RECURSIVE suggest_loop_faulty(_, _, _, _, _, _, _)
suggest_loop_faulty(db, clock, current_dt, num_suggestions, suggestions, f, failed) ==
    IF ~(Len(suggestions) < num_suggestions /\ Len(suggestions) < 10)
    THEN [rows |-> suggestions, failed |-> failed]
    ELSE LET dt == next_candidate(current_dt)
             current_date == strftime(dt \div 1440)
             current_time == strftime(dt % 1440)
             a == is_available_faulty(db, clock, current_date, current_time, f)
         IN  suggest_loop_faulty(db, clock, dt, num_suggestions,
                                 IF a.ok
                                 THEN Append(suggestions,
                                             Slot(current_date, current_time))
                                 ELSE suggestions,
                                 f, failed \/ a.failed)

suggest_alternative_slots_faulty(db, clock, date, time, num_suggestions, f) ==
    LET d == strptime(date)
        t == strptime(time)
    IN  IF ~d.parsed \/ ~t.parsed THEN [rows |-> << >>, failed |-> FALSE]
        ELSE suggest_loop_faulty(db, clock, d.val * 1440 + t.val,
                                 num_suggestions, << >>, f, FALSE)

----------------------------------------------------------------------------
\* State machine: engine calls on a store with faults

Outcome(op, date, time, ok, msg, rows, failed) ==
    [op |-> op, date |-> date, time |-> time, doctor |-> "", notes |-> "",
     ok |-> ok, msg |-> msg, rows |-> rows, failed |-> failed]

FaultSlotInputs ==
    { <<SearchMonday, HHMM(9, 30)>>, <<SearchMonday, HHMM(10, 0)>>,
      <<SearchMonday, HHMM(8, 0)>> }

\* No fault, the availability check of Monday 09:30 times out, the writes
\* and the listing fail, the store is down.
TransientFaults ==
    { NoFault, Fault(FALSE, {31 * 1440 + 9 * 60 + 30}, FALSE),
      Fault(FALSE, {}, TRUE) }

FaultInputs == TransientFaults \cup { Fault(TRUE, {}, FALSE) }

ScheduleFaulty(date, time, doctor, notes, f) ==
    LET r == schedule_appointment_faulty(store, now, date, time, doctor, notes, f)
    IN  /\ Len(r.db) <= MaxRecords
        /\ store' = r.db
        /\ last' = Outcome("schedule", date, time, r.ok, r.msg, << >>, r.failed)
        /\ UNCHANGED <<now, pc, req, res>>

CancelFaulty(date, time, f) ==
    LET r == cancel_appointment_faulty(store, date, time, f)
    IN  /\ store' = r.db
        /\ last' = Outcome("cancel", date, time, r.ok, r.msg, << >>, r.failed)
        /\ UNCHANGED <<now, pc, req, res>>

UpdateNotesFaulty(date, time, notes, f) ==
    LET r == update_appointment_notes_faulty(store, date, time, notes, f)
    IN  /\ store' = r.db
        /\ last' = Outcome("update_notes", date, time, r.ok, r.msg, << >>,
                           r.failed)
        /\ UNCHANGED <<now, pc, req, res>>

IsAvailableFaulty(date, time, f) ==
    LET r == is_available_faulty(store, now, date, time, f)
    IN  /\ last' = Outcome("is_available", date, time, r.ok, "", << >>, r.failed)
        /\ UNCHANGED <<store, now, pc, req, res>>

ListFaulty(date, f) ==
    /\ last' = Outcome("list", date, BadText, FALSE, "",
                       db_get_appointments_faulty(store, date, f), write_fails(f))
    /\ UNCHANGED <<store, now, pc, req, res>>

NextAvailableFaulty(date, f) ==
    LET r == get_next_available_slot_faulty(store, now, date, f)
    IN  /\ last' = Outcome("next_available", date, BadText, FALSE, "", r.rows,
                           r.failed)
        /\ UNCHANGED <<store, now, pc, req, res>>

\* A store that is down for the whole call keeps the loop going until the
\* date arithmetic overflows; the searches are taken with transient faults.
SuggestFaulty(date, time, num_suggestions, f) ==
    LET r == suggest_alternative_slots_faulty(store, now, date, time,
                                              num_suggestions, f)
    IN  /\ last' = Outcome("suggest", date, time, FALSE, "", r.rows, r.failed)
        /\ UNCHANGED <<store, now, pc, req, res>>

NextFaulty ==
    \/ \E s \in FaultSlotInputs, x \in DetailInputs, f \in FaultInputs :
          ScheduleFaulty(s[1], s[2], x[1], x[2], f)
    \/ \E s \in FaultSlotInputs, f \in FaultInputs : CancelFaulty(s[1], s[2], f)
    \/ \E s \in FaultSlotInputs, n \in NoteInputs, f \in FaultInputs :
          UpdateNotesFaulty(s[1], s[2], n, f)
    \/ \E s \in FaultSlotInputs, f \in FaultInputs :
          IsAvailableFaulty(s[1], s[2], f)
    \/ \E f \in FaultInputs : ListFaulty(SearchMonday, f)
    \/ \E f \in TransientFaults : NextAvailableFaulty(NoDate, f)
    \/ \E f \in TransientFaults : SuggestFaulty(SearchMonday, HHMM(9, 0), 2, f)

SpecFaulty == InitSearch /\ [][NextFaulty]_vars

----------------------------------------------------------------------------
\* The voice session (HealthcareVoiceAssistant)

\* The entities of an utterance; a key that is missing is NoDate for the
\* date and the time and the empty string for the doctor and the notes.
Entities(date, time) == [date |-> date, time |-> time, doctor |-> "", notes |-> ""]

SayPrompt == "I need both a date and time for the appointment."
SayAlternatives == "That time is not available. Here are some alternative slots"
SayNoSlots == "I'm sorry, there are no available slots around that time."
SayScheduled == "Great! Appointment scheduled successfully"
SayNotScheduled == "I'm sorry, I couldn't schedule the appointment."
SaySchedulingError == "There was an error scheduling your appointment."
SayNoAppointments == "You have no upcoming appointments scheduled."
SayAppointments == "Here are your upcoming appointments"
SayCheckingError == "I had trouble retrieving your appointments."
SayCancelPrompt == "I need both the date and time of the appointment you want to cancel."
SayCancelled == "The appointment has been cancelled successfully."
SayNotCancelled == "I couldn't cancel the appointment."
SayCancellationError == "There was an error cancelling your appointment."
SayUnknown == "I'm not sure what you'd like to do."
SayNotProcessed == "I'm sorry, I couldn't process that request."
SayLoopError == "I encountered an error. Please try again."
SayGoodbye == "Goodbye!"

\* What one pass of a handler did: the text given to speak, the table, the
\* alternatives it read out, and whether the session goes on.
Handled(spoken, db, rows, goes_on) ==
    [spoken |-> spoken, db |-> db, rows |-> rows, goes_on |-> goes_on]

\* Mutant: the availability of the slot is not verified before booking.
handle_scheduling_unverified(db, clock, entities, raises) ==
    IF raises THEN Handled(SaySchedulingError, db, << >>, TRUE)
    ELSE IF entities.date = NoDate \/ entities.time = NoDate
    THEN Handled(SayPrompt, db, << >>, TRUE)
    ELSE LET r == schedule_appointment(db, clock, entities.date, entities.time,
                                       "General Physician", entities.notes)
         IN  IF r.ok THEN Handled(SayScheduled, r.db, << >>, TRUE)
             ELSE Handled(SayNotScheduled, r.db, << >>, TRUE)

\* _handle_scheduling; raises: a statement of the handler raised before the
\* booking call.
handle_scheduling(db, clock, entities, raises) ==
    IF raises THEN Handled(SaySchedulingError, db, << >>, TRUE)
    ELSE IF entities.date = NoDate \/ entities.time = NoDate
    THEN Handled(SayPrompt, db, << >>, TRUE)
    ELSE IF ~is_available(db, clock, entities.date, entities.time)
    THEN LET alternative_slots ==
                 suggest_alternative_slots(db, clock, entities.date,
                                           entities.time, 3).rows
         IN  IF alternative_slots # << >>
             THEN Handled(SayAlternatives, db, alternative_slots, TRUE)
             ELSE Handled(SayNoSlots, db, << >>, TRUE)
    ELSE LET r == schedule_appointment(db, clock, entities.date, entities.time,
                                       "General Physician", entities.notes)
         IN  IF r.ok THEN Handled(SayScheduled, r.db, << >>, TRUE)
             ELSE Handled(SayNotScheduled, r.db, << >>, TRUE)

\* _handle_checking_appointments, on a machine whose clock is UTC.
handle_checking_appointments(db, clock, raises) ==
    IF raises THEN Handled(SayCheckingError, db, << >>, TRUE)
    ELSE IF get_appointments_upcoming(db, clock, 0) = << >>
    THEN Handled(SayNoAppointments, db, << >>, TRUE)
    ELSE Handled(SayAppointments, db, << >>, TRUE)

\* _handle_cancellation
handle_cancellation(db, entities, raises) ==
    IF raises THEN Handled(SayCancellationError, db, << >>, TRUE)
    ELSE IF entities.date = NoDate \/ entities.time = NoDate
    THEN Handled(SayCancelPrompt, db, << >>, TRUE)
    ELSE LET r == cancel_appointment(db, entities.date, entities.time)
         IN  IF r.ok THEN Handled(SayCancelled, r.db, << >>, TRUE)
             ELSE Handled(SayNotCancelled, r.db, << >>, TRUE)

\* Mutant: an exception of a handler ends the session.
handle_intent_unguarded(db, clock, intent, entities, raises) ==
    IF raises THEN Handled("", db, << >>, FALSE)
    ELSE IF intent = "SCHEDULE_APPOINTMENT"
    THEN handle_scheduling(db, clock, entities, FALSE)
    ELSE IF intent = "CHECK_APPOINTMENTS"
    THEN handle_checking_appointments(db, clock, FALSE)
    ELSE IF intent = "CANCEL_APPOINTMENT"
    THEN handle_cancellation(db, entities, FALSE)
    ELSE IF intent = "EXIT" THEN Handled(SayGoodbye, db, << >>, FALSE)
    ELSE Handled(SayUnknown, db, << >>, TRUE)

\* _handle_intent: sys.exit(0) on EXIT is a SystemExit, which no
\* 'except Exception' catches; _handle_unknown_intent has no handler of its
\* own, so its exception is caught here.
handle_intent(db, clock, intent, entities, raises) ==
    IF intent = "SCHEDULE_APPOINTMENT"
    THEN handle_scheduling(db, clock, entities, raises)
    ELSE IF intent = "CHECK_APPOINTMENTS"
    THEN handle_checking_appointments(db, clock, raises)
    ELSE IF intent = "CANCEL_APPOINTMENT"
    THEN handle_cancellation(db, entities, raises)
    ELSE IF intent = "EXIT" THEN Handled(SayGoodbye, db, << >>, FALSE)
    ELSE IF raises THEN Handled(SayNotProcessed, db, << >>, TRUE)
    ELSE Handled(SayUnknown, db, << >>, TRUE)

----------------------------------------------------------------------------
\* State machine: the session loop of start()

Intents ==
    { "SCHEDULE_APPOINTMENT", "CHECK_APPOINTMENTS", "CANCEL_APPOINTMENT", "EXIT",
      "UNKNOWN" }

EntityInputs ==
    { Entities(SearchMonday, HHMM(9, 30)), Entities(SearchMonday, HHMM(10, 0)),
      Entities(SearchMonday, HHMM(8, 0)), Entities(SearchMonday, NoDate),
      Entities(NoDate, HHMM(9, 30)), Entities(BadText, HHMM(9, 30)) }

\* The response of one pass of the loop.
Spoken(intent, entities, text, rows, raised) ==
    [op |-> intent, date |-> entities.date, time |-> entities.time,
     doctor |-> "", notes |-> "", ok |-> FALSE, msg |-> text, rows |-> rows,
     raised |-> raised]

InitSession ==
    /\ store = << >>
    /\ now \in SearchClocks
    /\ last = NoCall
    /\ pc = [c \in Callers |-> IF c = "c1" THEN "listening" ELSE "idle"]
    /\ req = [c \in Callers |-> NoRequest]
    /\ res = [c \in Callers |-> NoResult]

\* listen() returned nothing: continue.
HearNothing ==
    /\ pc["c1"] = "listening"
    /\ last' = NoCall
    /\ UNCHANGED <<store, now, pc, req, res>>

\* nlp.process raised: the handler of the loop speaks and the loop goes on.
ProcessRaises ==
    /\ pc["c1"] = "listening"
    /\ last' = Spoken("nlp.process", Entities(NoDate, NoDate), SayLoopError,
                      << >>, TRUE)
    /\ UNCHANGED <<store, now, pc, req, res>>

\* One pass: an utterance is heard, understood and handled.
Turn(intent, entities, raises) ==
    LET h == handle_intent(store, now, intent, entities, raises)
    IN  /\ pc["c1"] = "listening"
        /\ Len(h.db) <= MaxRecords
        /\ store' = h.db
        /\ last' = Spoken(intent, entities, h.spoken, h.rows, raises)
        /\ pc' = [pc EXCEPT !["c1"] = IF h.goes_on THEN "listening" ELSE "ended"]
        /\ UNCHANGED <<now, req, res>>

\* KeyboardInterrupt: the loop says goodbye and breaks.
Interrupt ==
    /\ pc["c1"] = "listening"
    /\ last' = Spoken("KeyboardInterrupt", Entities(NoDate, NoDate), SayGoodbye,
                      << >>, FALSE)
    /\ pc' = [pc EXCEPT !["c1"] = "ended"]
    /\ UNCHANGED <<store, now, req, res>>

NextSession ==
    \/ HearNothing
    \/ ProcessRaises
    \/ \E i \in Intents, e \in EntityInputs, x \in BOOLEAN : Turn(i, e, x)
    \/ Interrupt

SpecSession == InitSession /\ [][NextSession]_vars

----------------------------------------------------------------------------
\* State machine: bookings at times between the half hours

\* Friday 09:00, 09:15 and 09:30
OffGridSlotInputs ==
    { <<Friday, HHMM(9, 0)>>, <<Friday, HHMM(9, 15)>>, <<Friday, HHMM(9, 30)>> }

NextOffGrid ==
    \/ \E s \in OffGridSlotInputs, d \in DetailInputs :
          Schedule(s[1], s[2], d[1], d[2])
    \/ \E s \in OffGridSlotInputs : Cancel(s[1], s[2])
    \/ \E s \in OffGridSlotInputs : IsAvailable(s[1], s[2])

SpecOffGrid == Init /\ [][NextOffGrid]_vars

----------------------------------------------------------------------------
\* State machine: all the calls of the engine on one table

EngineSlotInputs ==
    { <<SearchMonday, HHMM(9, 30)>>, <<SearchMonday, HHMM(10, 0)>>,
      <<SearchMonday, HHMM(8, 0)>> }

NextEngine ==
    \/ \E s \in EngineSlotInputs, x \in DetailInputs :
          Schedule(s[1], s[2], x[1], x[2])
    \/ \E s \in EngineSlotInputs : Cancel(s[1], s[2])
    \/ \E s \in EngineSlotInputs, n \in NoteInputs : UpdateNotes(s[1], s[2], n)
    \/ \E s \in EngineSlotInputs : IsAvailable(s[1], s[2])
    \/ List(SearchMonday)
    \/ ListUpcoming(0)
    \/ NextAvailable(NoDate)
    \/ \E s \in EngineSlotInputs : Suggest(s[1], s[2], 3)

SpecEngine == InitSearch /\ [][NextEngine]_vars

----------------------------------------------------------------------------
\* State machine: cancellations while two callers are inside
\* schedule_appointment.  The UPDATE of a cancellation is one statement.

NextRace ==
    \/ NextConc
    \/ \E s \in SlotInputs : Cancel(s[1], s[2])

SpecRace == Init /\ [][NextRace]_vars

----------------------------------------------------------------------------
\* State machine: the validator while the clock runs

\* Half an hour or a day passes between two calls.
Pass(minutes) ==
    /\ now + minutes <= (MaxTicks + 1) * 1440
    /\ now' = now + minutes
    /\ last' = NoCall
    /\ UNCHANGED <<store, pc, req, res>>

NextClock ==
    \/ \E d \in ValidatorDateInputs, t \in ValidatorTimeInputs : IsValidSlot(d, t)
    \/ \E m \in {30, 1440} : Pass(m)

SpecClock == InitValidator /\ [][NextClock]_vars

----------------------------------------------------------------------------
\* State machine: the speech engine and its two threads (SpeechHandler).
\* Thread c1 is the caller of speak, thread c2 the worker of
\* _process_speech_queue.  pc[c] is "idle", "say" (inside engine.say) or
\* "runAndWait" (inside engine.runAndWait); res[c].msg is the text the thread
\* is speaking; res["c2"].queue is speech_queue.

SpeechTexts == { "Goodbye!", "beep" }

Speaking(text, queue) == [ok |-> FALSE, msg |-> text, queue |-> queue]

InitSpeech ==
    /\ store = << >>
    /\ now = 8 * 60
    /\ last = NoCall
    /\ pc = [c \in Callers |-> "idle"]
    /\ req = [c \in Callers |-> NoRequest]
    /\ res = [c \in Callers |-> Speaking("", << >>)]

\* speak(text, wait=True): _speak_sync on the caller's thread, engine.say.
SpeakSync(text) ==
    /\ pc["c1"] = "idle"
    /\ pc' = [pc EXCEPT !["c1"] = "say"]
    /\ res' = [res EXCEPT !["c1"] = Speaking(text, << >>)]
    /\ UNCHANGED <<store, now, last, req>>

\* speak(text, wait=False): speech_queue.put(text).
SpeakQueued(text) ==
    /\ pc["c1"] = "idle"
    /\ Len(res["c2"].queue) < MaxRecords
    /\ res' = [res EXCEPT !["c2"] =
                  Speaking(res["c2"].msg, Append(res["c2"].queue, text))]
    /\ UNCHANGED <<store, now, last, pc, req>>

\* The worker: text = speech_queue.get(), then _speak_sync, engine.say.
WorkerGet ==
    /\ pc["c2"] = "idle"
    /\ res["c2"].queue # << >>
    /\ pc' = [pc EXCEPT !["c2"] = "say"]
    /\ res' = [res EXCEPT !["c2"] =
                  Speaking(Head(res["c2"].queue), Tail(res["c2"].queue))]
    /\ UNCHANGED <<store, now, last, req>>

\* engine.say returned: engine.runAndWait.
RunAndWait(c) ==
    /\ pc[c] = "say"
    /\ pc' = [pc EXCEPT ![c] = "runAndWait"]
    /\ UNCHANGED <<store, now, last, req, res>>

\* engine.runAndWait returned: _speak_sync returns.
SpeechDone(c) ==
    /\ pc[c] = "runAndWait"
    /\ pc' = [pc EXCEPT ![c] = "idle"]
    /\ res' = [res EXCEPT ![c] = Speaking("", res[c].queue)]
    /\ UNCHANGED <<store, now, last, req>>

NextSpeech ==
    \/ \E t \in SpeechTexts : SpeakSync(t)
    \/ \E t \in SpeechTexts : SpeakQueued(t)
    \/ WorkerGet
    \/ \E c \in Callers : RunAndWait(c)
    \/ \E c \in Callers : SpeechDone(c)

SpecSpeech == InitSpeech /\ [][NextSpeech]_vars

----------------------------------------------------------------------------
\* Vocabulary of the properties

\* An appointment with status 'scheduled' is stored at exactly (date, time).
ActiveAt(db, date, time) ==
    \E i \in DOMAIN db : /\ db[i].date = date
                         /\ db[i].time = time
                         /\ db[i].status = "scheduled"

CancelledAt(db, date, time) ==
    \E i \in DOMAIN db : /\ db[i].date = date
                         /\ db[i].time = time
                         /\ db[i].status = "cancelled"

\* The step is the engine call that last' describes.
ScheduleStep == last'.op = "schedule"
CancelStep == last'.op = "cancel"

MsgInvalid == "Invalid appointment date or time"
MsgUnavailable == "This time slot is not available"
MsgNotFound == "No appointment found for the specified time"

----------------------------------------------------------------------------
C2_AtMostOneConcurrentBooking ==
    \A a, b \in Callers :
        (/\ a # b
         /\ pc[a] = "done"
         /\ pc[b] = "done"
         /\ req[a].date = req[b].date
         /\ req[a].time = req[b].time)
        => /\ ~(res[a].ok /\ res[b].ok)
           /\ Cardinality(where_scheduled(store, req[a].date, req[a].time)) <= 1

\* C3: the store's insert returns failure and adds no record whenever a
\* 'scheduled' record already exists for the same (date, time).
C3_InsertRejectsOccupied ==
    [][\A c \in Callers :
          (/\ pc[c] = "insert"
           /\ pc'[c] = "done"
           /\ ActiveAt(store, req[c].date, req[c].time))
          => (~res'[c].ok /\ store' = store)]_vars

\* C4: a schedule call on a slot that is valid and has no active appointment
\* succeeds, and is_available on that slot right afterwards is false.
C4_ScheduleThenUnavailable ==
    [][(/\ ScheduleStep
        /\ is_valid_datetime(last'.date, last'.time, now)
        /\ ~ActiveAt(store, last'.date, last'.time))
       => (/\ last'.ok
           /\ ~is_available(store', now', last'.date, last'.time))]_vars

C4_Witness ==
    /\ last.op = "schedule"
    /\ last.ok
    /\ is_valid_datetime(last.date, last.time, now)
    /\ ~is_available(store, now, last.date, last.time)

\* C5: cancel succeeds exactly on a slot with an active appointment and
\* leaves none there; on any other slot (never booked, or cancelled before)
\* it returns the 'no appointment found' failure and changes nothing; and a
\* slot without an active appointment gets one only by a schedule call on
\* it.  So after a successful schedule the first cancel succeeds and every
\* later cancel fails until the slot is scheduled again.
C5_CancelOnce ==
    [][/\ CancelStep =>
            /\ last'.ok <=> ActiveAt(store, last'.date, last'.time)
            /\ last'.ok => (/\ last'.msg # MsgNotFound
                            /\ ~ActiveAt(store', last'.date, last'.time))
            /\ ~last'.ok => (last'.msg = MsgNotFound /\ store' = store)
       /\ \A s \in SlotInputs :
            (~ActiveAt(store, s[1], s[2]) /\ ActiveAt(store', s[1], s[2]))
            => (/\ ScheduleStep
                /\ last'.ok
                /\ last'.date = s[1]
                /\ last'.time = s[2])]_vars

\* A second cancel of a cancelled slot was turned down.
C5_Witness ==
    /\ last.op = "cancel"
    /\ ~last.ok
    /\ last.msg = MsgNotFound
    /\ CancelledAt(store, last.date, last.time)
    /\ ~ActiveAt(store, last.date, last.time)

\* C6: a successful schedule(date, time, provider, notes) adds exactly one
\* record, with that date, time, provider and notes and status 'scheduled',
\* and changes no other record.
C6_ScheduleAddsOneRecord ==
    [][(ScheduleStep /\ last'.ok)
       => store' = Append(store, [date |-> last'.date, time |-> last'.time,
                                  doctor |-> last'.doctor,
                                  patient_notes |-> last'.notes,
                                  status |-> "scheduled"])]_vars

\* A booking was added behind an earlier record.
C6_Witness ==
    /\ last.op = "schedule"
    /\ last.ok
    /\ Len(store) = 2
    /\ store[2].date = last.date
    /\ store[2].time = last.time
    /\ store[2].doctor = last.doctor
    /\ store[2].patient_notes = last.notes
    /\ store[2].status = "scheduled"

\* C7: a record's status is 'scheduled' or 'cancelled'; a new record starts
\* 'scheduled' and comes from a successful schedule; a 'cancelled' record
\* stays 'cancelled'; and a record turns 'cancelled' only in a successful
\* cancel of its (date, time).
C7_StatusOneWay ==
    [][/\ \A i \in DOMAIN store' : store'[i].status \in {"scheduled", "cancelled"}
       /\ \A i \in DOMAIN store' \ DOMAIN store :
            store'[i].status = "scheduled" /\ ScheduleStep /\ last'.ok
       /\ \A i \in DOMAIN store :
            /\ i \in DOMAIN store'
            /\ store[i].status = "cancelled" => store'[i].status = "cancelled"
            /\ (store[i].status = "scheduled" /\ store'[i].status = "cancelled")
               => (/\ CancelStep
                   /\ last'.ok
                   /\ last'.date = store[i].date
                   /\ last'.time = store[i].time)]_vars

\* A cancelled slot was booked again: the cancelled record is still cancelled.
C7_Witness ==
    /\ last.op = "schedule"
    /\ last.ok
    /\ CancelledAt(store, last.date, last.time)
    /\ ActiveAt(store, last.date, last.time)

\* C8: no operation removes a record: the table only grows, every record
\* keeps its date and time, and after a cancel the record is still there
\* with status 'cancelled'.
C8_NeverRemoved ==
    [][/\ Len(store') >= Len(store)
       /\ \A i \in DOMAIN store :
            /\ store'[i].date = store[i].date
            /\ store'[i].time = store[i].time
       /\ (CancelStep /\ last'.ok)
          => \A i \in where_scheduled(store, last'.date, last'.time) :
                store'[i].status = "cancelled"]_vars

C8_Witness ==
    /\ last.op = "cancel"
    /\ last.ok
    /\ CancelledAt(store, last.date, last.time)
    /\ Len(store) = 2

\* C9: is_available returns true exactly when the slot is valid and no
\* 'scheduled' appointment is stored at that exact (date, time); cancelled
\* appointments there do not count.
C9_AvailableIffValidAndFree ==
    last.op = "is_available"
    => (last.ok <=> (/\ is_valid_datetime(last.date, last.time, now)
                     /\ ~ActiveAt(store, last.date, last.time)))

\* is_available answered true for a slot that holds a cancelled appointment.
C9_Witness ==
    /\ last.op = "is_available"
    /\ last.ok
    /\ CancelledAt(store, last.date, last.time)

\* C10: schedule tests legality first: an invalid slot always gets the
\* 'invalid date/time' failure, also when it is occupied, and the 'slot
\* unavailable' failure, a different message, is given only for a valid slot
\* occupied by an active appointment.
C10_LegalityFirst ==
    last.op = "schedule"
    => /\ ~is_valid_datetime(last.date, last.time, now)
          => (~last.ok /\ last.msg = MsgInvalid)
       /\ last.msg = MsgUnavailable
          => (/\ ~last.ok
              /\ last.msg # MsgInvalid
              /\ is_valid_datetime(last.date, last.time, now)
              /\ ActiveAt(store, last.date, last.time))

\* An occupied slot that is no longer valid was asked for.
C10_Witness ==
    /\ last.op = "schedule"
    /\ last.msg = MsgInvalid
    /\ ActiveAt(store, last.date, last.time)

\* The calendar date and the time of day a stored record is at.
DateOf(r) == strptime(r.date).val
TimeOf(r) == strptime(r.time).val

\* C11: list(date) returns exactly the appointments with status 'scheduled'
\* on that date, never a cancelled one, in ascending order of time.
C11_ListOfDate ==
    last.op = "list"
    => LET on_date == {i \in DOMAIN store :
                          /\ store[i].status = "scheduled"
                          /\ DateOf(store[i]) = strptime(last.date).val}
       IN  /\ \A k \in DOMAIN last.rows : last.rows[k].status = "scheduled"
           /\ \A k \in DOMAIN last.rows : \E i \in on_date : store[i] = last.rows[k]
           /\ \A i \in on_date : \E k \in DOMAIN last.rows : last.rows[k] = store[i]
           /\ Len(last.rows) = Cardinality(on_date)
           /\ \A k \in 1 .. Len(last.rows) - 1 :
                 TimeOf(last.rows[k]) <= TimeOf(last.rows[k + 1])

\* C12: list() returns every appointment with status 'scheduled' dated the
\* current date or later, none dated earlier, none cancelled, in ascending
\* order of (date, time).
C12_ListUpcoming ==
    last.op = "list_upcoming"
    => LET today == now \div 1440
           upcoming == {i \in DOMAIN store :
                           /\ store[i].status = "scheduled"
                           /\ DateOf(store[i]) >= today}
       IN  /\ \A k \in DOMAIN last.rows : \E i \in upcoming : store[i] = last.rows[k]
           /\ \A i \in upcoming : \E k \in DOMAIN last.rows : last.rows[k] = store[i]
           /\ Len(last.rows) = Cardinality(upcoming)
           /\ \A k \in 1 .. Len(last.rows) - 1 :
                 \/ DateOf(last.rows[k]) < DateOf(last.rows[k + 1])
                 \/ /\ DateOf(last.rows[k]) = DateOf(last.rows[k + 1])
                    /\ TimeOf(last.rows[k]) <= TimeOf(last.rows[k + 1])

\* The texts of the latest call were parsed; the instant, the hour of the
\* day and the day of the week they name (day 0 is a Friday).
LastParsed == strptime(last.date).parsed /\ strptime(last.time).parsed
LastInstant == strptime(last.date).val * 1440 + strptime(last.time).val
LastHour == strptime(last.time).val \div 60
LastOnWeekend == strptime(last.date).val % 7 \in {1, 2}

\* C13: is_valid_slot is false whenever the hour of the day is below the
\* opening hour or at or above the closing hour (17:00 is never valid), and
\* whenever the date is a Saturday or a Sunday.
C13_OutsideCalendarInvalid ==
    (last.op = "is_valid_slot" /\ LastParsed)
    => /\ (LastHour < WORKING_HOURS_START \/ LastHour >= WORKING_HOURS_END)
          => ~last.ok
       /\ LastOnWeekend => ~last.ok

\* 16:30 was found valid.
C13_Witness ==
    /\ last.op = "is_valid_slot"
    /\ last.ok
    /\ last.time = HHMM(16, 30)

\* C14: is_valid_slot is false for every slot earlier than the current time
\* plus the minimum notice, and no schedule call succeeds on such a slot.
C14_NoticeRequired ==
    (last.op \in {"is_valid_slot", "schedule"} /\ LastParsed
        /\ LastInstant < now + MIN_SCHEDULE_NOTICE * 60)
    => ~last.ok

\* A booking inside the notice window, on a working day and within working
\* hours, was turned down.
C14_Witness ==
    /\ last.op = "schedule"
    /\ ~last.ok
    /\ LastParsed
    /\ LastInstant > now
    /\ LastInstant < now + MIN_SCHEDULE_NOTICE * 60
    /\ LastHour >= WORKING_HOURS_START
    /\ ~LastOnWeekend

\* C15 as claimed: a slot exactly at the current time plus the minimum notice
\* is invalid.
C15_BoundaryInvalid ==
    (last.op = "is_valid_slot" /\ LastParsed
        /\ LastInstant = now + MIN_SCHEDULE_NOTICE * 60)
    => ~last.ok

\* C15 as amended: a slot exactly at the current time plus the minimum notice
\* passes the notice rule: is_valid_slot is true for it exactly when it lies
\* within working hours on a working day.
C15_BoundaryAdmitted ==
    (last.op = "is_valid_slot" /\ LastParsed
        /\ LastInstant = now + MIN_SCHEDULE_NOTICE * 60)
    => (last.ok <=> (/\ LastHour >= WORKING_HOURS_START
                     /\ LastHour < WORKING_HOURS_END
                     /\ ~LastOnWeekend))

C15_Witness ==
    /\ last.op = "is_valid_slot"
    /\ last.ok
    /\ LastInstant = now + MIN_SCHEDULE_NOTICE * 60

\* C16: on a date or time text that cannot be parsed, is_valid_slot returns
\* false, schedule returns the 'invalid date/time' failure, is_available
\* returns false, and the store is left as it was.
C16_MalformedRejected ==
    [][(last'.op \in {"is_valid_slot", "schedule", "is_available"}
          /\ (last'.date.form = "bad" \/ last'.time.form = "bad"))
       => (/\ ~last'.ok
           /\ last'.op = "schedule" => last'.msg = MsgInvalid
           /\ store' = store)]_vars

\* A booking with a malformed text was turned down on a table with a record.
C16_Witness ==
    /\ last.op = "schedule"
    /\ ~last.ok
    /\ last.date.form = "bad"
    /\ store # << >>

\* The business rules and the occupancy of the slot at time t (in minutes)
\* of day number day, stated on the calendar: day 0 is a Friday.
Legal(day, t) ==
    /\ day * 1440 + t >= now + MIN_SCHEDULE_NOTICE * 60
    /\ t \div 60 >= WORKING_HOURS_START
    /\ t \div 60 < WORKING_HOURS_END
    /\ day % 7 \notin {1, 2}

Free(day, t) == ~ActiveAt(store, Text(day, "canon"), Text(t, "canon"))

\* The times of a day that the scan visits: 09:00, 09:30, ..., 16:30.
Grid ==
    { t \in WORKING_HOURS_START * 60 .. WORKING_HOURS_END * 60 - 1 :
        (t - WORKING_HOURS_START * 60) % APPOINTMENT_DURATION = 0 }

\* The day the latest search started from.
LastFrom == IF last.date = NoDate THEN now \div 1440 ELSE strptime(last.date).val

\* C17: a slot returned by next_available_slot is legal and not occupied, it
\* lies on the grid of the scanned days, and no slot before it in the scan
\* order (days from from_date on, times from opening to closing in steps of
\* the appointment duration) is both legal and free.
C17_FirstAvailable ==
    (last.op = "next_available" /\ last.rows # << >>)
    => LET hit == last.rows[1]
           hd == strptime(hit.date).val
           ht == strptime(hit.time).val
       IN  /\ Len(last.rows) = 1
           /\ hit.date.form = "canon" /\ hit.time.form = "canon"
           /\ hd >= LastFrom
           /\ ht \in Grid
           /\ Legal(hd, ht)
           /\ Free(hd, ht)
           /\ \A day \in LastFrom .. hd : \A t \in Grid :
                 (day * 1440 + t < hd * 1440 + ht) => ~(Legal(day, t) /\ Free(day, t))

\* The search passed two occupied slots of the Monday and returned 10:30.
C17_Witness ==
    /\ last.op = "next_available"
    /\ last.rows = << Slot(SearchMonday, HHMM(10, 30)) >>
    /\ ActiveAt(store, SearchMonday, HHMM(9, 30))
    /\ ActiveAt(store, SearchMonday, HHMM(10, 0))

\* C18: next_available_slot reports 'none found' exactly when none of the
\* grid slots of the 30 days from from_date on is available, whatever is
\* free after those days.
C18_ThirtyDays ==
    (last.op = "next_available" /\ strptime(last.date).parsed)
    => (last.rows = << >>
        <=> \A day \in LastFrom .. LastFrom + 29 : \A t \in Grid :
               ~(Legal(day, t) /\ Free(day, t)))

\* Nothing was found from the Saturday thirty days before the Monday, whose
\* 11:00 slot is legal and free.
C18_Witness ==
    /\ last.op = "next_available"
    /\ last.date = SearchBeyondHorizon
    /\ last.rows = << >>
    /\ store # << >>
    /\ Legal(31, 11 * 60) /\ Free(31, 11 * 60)

\* C19: every slot returned by suggest_alternatives lies within working
\* hours on a day that is not a Saturday or a Sunday, no (date, time) pair
\* occurs twice, and the slots are in strictly increasing chronological order.
C19_SuggestionsLegal ==
    last.op = "suggest"
    => /\ \A i \in DOMAIN last.rows :
             /\ TimeOf(last.rows[i]) \div 60 >= WORKING_HOURS_START
             /\ TimeOf(last.rows[i]) \div 60 < WORKING_HOURS_END
             /\ DateOf(last.rows[i]) % 7 \notin {1, 2}
       /\ \A i, j \in DOMAIN last.rows :
             i < j => /\ last.rows[i] # last.rows[j]
                      /\ DateOf(last.rows[i]) * 1440 + TimeOf(last.rows[i])
                           < DateOf(last.rows[j]) * 1440 + TimeOf(last.rows[j])

\* Three alternatives to Friday 16:30 were found across the weekend, with a
\* booking in the table.
C19_Witness ==
    /\ last.op = "suggest"
    /\ last.date = SearchFriday
    /\ last.time = HHMM(16, 30)
    /\ Len(last.rows) = 3
    /\ \E i \in DOMAIN store : store[i].status = "scheduled"

\* C20: suggest_alternatives examines at most 10 candidate slots per call.
C20_AtMostTenExamined ==
    last.op = "suggest" => last.examined <= 10

\* C21: suggest_alternatives returns at most as many slots as were asked
\* for, each of them available, and every slot of the grid after the requested
\* instant and before a returned slot that is legal and free is itself
\* returned: no available candidate is skipped.
C21_FirstAlternatives ==
    (last.op = "suggest" /\ LastParsed)
    => /\ Len(last.rows) <= last.asked
       /\ \A i \in DOMAIN last.rows :
             /\ Legal(DateOf(last.rows[i]), TimeOf(last.rows[i]))
             /\ Free(DateOf(last.rows[i]), TimeOf(last.rows[i]))
             /\ \A day \in strptime(last.date).val .. DateOf(last.rows[i]) :
                   \A t \in Grid :
                      (/\ day * 1440 + t > LastInstant
                       /\ day * 1440 + t < DateOf(last.rows[i]) * 1440
                                             + TimeOf(last.rows[i])
                       /\ Legal(day, t)
                       /\ Free(day, t))
                      => \E j \in 1 .. i - 1 :
                            last.rows[j] = Slot(Text(day, "canon"), Text(t, "canon"))

\* 09:00 was requested with 09:30 and 10:00 occupied: the first suggestion
\* is 10:30.
C21_Witness ==
    /\ last.op = "suggest"
    /\ last.date = SearchMonday
    /\ last.time = HHMM(9, 0)
    /\ ActiveAt(store, SearchMonday, HHMM(9, 30))
    /\ ActiveAt(store, SearchMonday, HHMM(10, 0))
    /\ last.rows # << >>
    /\ last.rows[1] = Slot(SearchMonday, HHMM(10, 30))

\* C22: update_notes succeeds exactly when a scheduled appointment exists at
\* (date, time); it then replaces the notes of that appointment and nothing
\* else; otherwise it fails with 'not found' and changes no record, so the
\* notes of a cancelled record are never changed.
C22_NotesOfActiveOnly ==
    [][(last'.op = "update_notes")
       => (/\ last'.ok <=> ActiveAt(store, last'.date, last'.time)
           /\ ~last'.ok => last'.msg = MsgNotFound
           /\ Len(store') = Len(store)
           /\ \A i \in DOMAIN store :
                 IF /\ store[i].status = "scheduled"
                    /\ store[i].date = last'.date
                    /\ store[i].time = last'.time
                 THEN store'[i] = [store[i] EXCEPT !.patient_notes = last'.notes]
                 ELSE store'[i] = store[i])]_vars

\* The notes of a rebooked slot were replaced next to its cancelled record,
\* which kept its notes.
C22_Witness ==
    /\ last.op = "update_notes"
    /\ last.ok
    /\ \E i, j \in DOMAIN store :
          /\ store[i].date = last.date /\ store[i].time = last.time
          /\ store[j].date = last.date /\ store[j].time = last.time
          /\ store[i].status = "cancelled"
          /\ store[i].patient_notes = "annual checkup"
          /\ store[j].status = "scheduled"
          /\ store[j].patient_notes = "flu"

\* C23: when a store call fails during an engine call, schedule, cancel and
\* update_notes return success=false, is_available returns false, and list,
\* next_available_slot and suggest_alternatives return an empty result.
C23_FaultsSurface ==
    (last.op # "none" /\ last.failed)
    => /\ ~last.ok
       /\ last.rows = << >>

\* C24: after a pass of the loop on any intent other than EXIT, also when
\* the handler or the language processing raised, a response was spoken and
\* the loop is listening again; the loop ends only on EXIT or on a keyboard
\* interrupt.
C24_LoopGoesOn ==
    [][/\ (last'.op \notin {"none", "EXIT", "KeyboardInterrupt"})
          => (last'.msg # "" /\ pc'["c1"] = "listening")
       /\ (pc["c1"] = "listening" /\ pc'["c1"] = "ended")
          => last'.op \in {"EXIT", "KeyboardInterrupt"}]_vars

\* A handler raised with a booking in the table, and the loop is listening.
C24_Witness ==
    /\ pc["c1"] = "listening"
    /\ last.op = "CANCEL_APPOINTMENT"
    /\ last.raised
    /\ last.msg = SayCancellationError
    /\ store # << >>

\* The entities of the latest scheduling utterance lack the date or the time.
LastMissing == last'.date = NoDate \/ last'.time = NoDate

\* C29: a pass of the scheduling handler changes the table only by adding
\* one scheduled appointment at the date and time it was given, and only when
\* both were given and is_available held for them; when one is missing it
\* speaks the prompt, when the slot is not available it speaks the
\* alternatives (or that there are none), and in both cases the table is
\* left as it was.
C29_HandlerBooksAvailableOnly ==
    [][(last'.op = "SCHEDULE_APPOINTMENT")
       => (/\ store' # store
              => /\ ~LastMissing
                 /\ is_available(store, now, last'.date, last'.time)
                 /\ Len(store') = Len(store) + 1
                 /\ SubSeq(store', 1, Len(store)) = store
                 /\ store'[Len(store')].date = last'.date
                 /\ store'[Len(store')].time = last'.time
                 /\ store'[Len(store')].status = "scheduled"
           /\ (LastMissing \/ ~is_available(store, now, last'.date, last'.time))
              => /\ store' = store
                 /\ (~last'.raised /\ LastMissing) => last'.msg = SayPrompt
                 /\ (~last'.raised /\ ~LastMissing)
                    => \/ last'.msg = SayAlternatives /\ last'.rows # << >>
                       \/ last'.msg = SayNoSlots /\ last'.rows = << >>)]_vars

\* The requested slot was occupied and alternatives were read out.
C29_Witness ==
    /\ last.op = "SCHEDULE_APPOINTMENT"
    /\ last.msg = SayAlternatives
    /\ ActiveAt(store, last.date, last.time)
    /\ Len(last.rows) = 3

\* C25: every scheduled appointment starts a whole number of appointment
\* durations after the opening hour, and the intervals
\* [start, start + appointment duration) of two scheduled appointments of one
\* day never overlap.
C25_OnGridNoOverlap ==
    /\ \A i \in DOMAIN store :
          store[i].status = "scheduled"
          => (TimeOf(store[i]) - WORKING_HOURS_START * 60) % APPOINTMENT_DURATION = 0
    /\ \A i, j \in DOMAIN store :
          (/\ i # j
           /\ store[i].status = "scheduled"
           /\ store[j].status = "scheduled"
           /\ DateOf(store[i]) = DateOf(store[j]))
          => \/ TimeOf(store[i]) + APPOINTMENT_DURATION <= TimeOf(store[j])
             \/ TimeOf(store[j]) + APPOINTMENT_DURATION <= TimeOf(store[i])

\* C26: the table changes only in a step that is a successful schedule,
\* cancel or update_notes: a call of these that returns failure, and every
\* call of is_available, list, next_available_slot and suggest_alternatives,
\* leaves every record as it was.
C26_OnlySuccessfulWritesChange ==
    [][store' # store
       => (last'.op \in {"schedule", "cancel", "update_notes"} /\ last'.ok)]_vars

\* A booking of an occupied slot was turned down.
C26_Witness ==
    /\ last.op = "schedule"
    /\ ~last.ok
    /\ last.msg = MsgUnavailable
    /\ ActiveAt(store, last.date, last.time)

\* C27: after a successful cancel no scheduled record is left at
\* (date, time), however many there were; while the slot is valid,
\* is_available on it is true and a schedule on it succeeds and adds one
\* record, leaving the cancelled ones in place.  (A step of a caller inside
\* schedule_appointment moves its pc; the cancel leaves pc alone.)
C27_CancelFreesSlot ==
    [][(CancelStep /\ pc' = pc /\ last'.ok)
       => (/\ ~ActiveAt(store', last'.date, last'.time)
           /\ CancelledAt(store', last'.date, last'.time)
           /\ is_valid_datetime(last'.date, last'.time, now)
              => LET r == schedule_appointment(store', now, last'.date,
                                               last'.time, "Dr. Smith", "")
                 IN  /\ is_available(store', now, last'.date, last'.time)
                     /\ r.ok
                     /\ Len(r.db) = Len(store') + 1
                     /\ SubSeq(r.db, 1, Len(store')) = store'
                     /\ r.db[Len(r.db)].status = "scheduled"
                     /\ r.db[Len(r.db)].date = last'.date
                     /\ r.db[Len(r.db)].time = last'.time)]_vars

\* One cancel took two scheduled records of a slot.
C27_Witness ==
    /\ last.op = "cancel"
    /\ last.ok
    /\ Cardinality({i \in DOMAIN store : /\ store[i].date = last.date
                                        /\ store[i].time = last.time
                                        /\ store[i].status = "cancelled"}) = 2

\* C28: when the clock moves on, no slot for which is_valid_slot was false
\* becomes valid.
C28_ValidityNeverReturns ==
    [][now' > now
       => \A d \in ValidatorDateInputs : \A t \in ValidatorTimeInputs :
             ~is_valid_datetime(d, t, now) => ~is_valid_datetime(d, t, now')]_vars

\* Friday 16:30, valid in the morning, was found invalid once less than the
\* notice was left.
C28_Witness ==
    /\ last.op = "is_valid_slot"
    /\ ~last.ok
    /\ last.date = Friday
    /\ last.time = HHMM(16, 30)
    /\ now > 15 * 60 + 30
    /\ now < 16 * 60 + 30

\* C30: the caller's thread and the worker of the speech queue are never
\* both inside the engine's say or runAndWait.
C30_OneThreadDrivesEngine ==
    ~(/\ pc["c1"] \in {"say", "runAndWait"}
      /\ pc["c2"] \in {"say", "runAndWait"})

====
